---- MODULE Spec2Model ----
(***************************************************************************)
(* Model of littlechef/chef.py: the node convergence workflow (sync_node)  *)
(* and the node data bag compiler (build_node_data_bag).                   *)
(*                                                                         *)
(* Spec         one host, a bounded number of sync_node runs in sequence.  *)
(* SpecCompile  one run of build_node_data_bag over a batch of nodes.      *)
(* SpecMerge    update_dct applied to a few layers, one after the other.   *)
(***************************************************************************)
EXTENDS Integers, Sequences, FiniteSets, TLC

VARIABLES
    \* ---- convergence workflow (sync_node) ----
    pc,             \* position of the host workflow
    node,           \* the node object handed to sync_node
    loglevel,       \* env.loglevel
    secret,         \* env.encrypted_data_bag_secret is configured
    ohai_output,    \* _get_ipaddress's local `output`: how the query ended
    force,          \* sync_node's local `ipaddress` (result of _get_ipaddress)
    durable,        \* nodes/<host>.json : <<>> when absent, <<content>> otherwise
    durable0,       \* nodes/<host>.json as it was when the run started
    tmpfile,        \* tmp_<host>.json   : <<>> when absent, <<content>> otherwise
    envDir,         \* the local directory environments/ exists
    envFiles,       \* environments/<name>.json : name -> origin of the file
    usedEnvs,       \* lib.get_used_environments()
    remoteNodeJson, \* /etc/chef/node.json exists on the host
    remoteSecret,   \* /etc/chef/encrypted_data_bag_secret exists on the host
    remoteDataBag,  \* <node_work_path>/data_bags/node exists on the host
    remoteEnvs,     \* environment files present in the remote tree
    output,         \* what the chef-solo invocation returned
    result,         \* how the run ended (or is about to end)
    steps,          \* remote/local effects attempted by the current run, in order
    runs,           \* number of sync_node runs started
    \* ---- node data bag compiler (build_node_data_bag) ----
    cpc,            \* position of build_node_data_bag
    nodes,          \* lib.get_nodes(), as read from nodes/
    cur,            \* index of the node the loop is at
    dataBag,        \* data_bags/node/<id>.json : id -> compiled node
    kitchen,        \* all_roles, all_recipes and the environments, in memory
    error,          \* the message of abort(), <<>> when none
    \* ---- the recursive merge (update_dct) ----
    mpc,            \* position of the caller of update_dct
    accumulator,    \* the dict handed to update_dct as dic1
    incoming,       \* the layer handed to update_dct as dic2
    merged,         \* the accumulator after the call (Err when it raised)
    calls           \* number of layers merged so far

wvars == <<pc, node, loglevel, secret, ohai_output, force, durable, durable0,
           tmpfile, envDir, envFiles, usedEnvs, remoteNodeJson, remoteSecret, remoteDataBag,
           remoteEnvs, output, result, steps, runs>>
cvars == <<cpc, nodes, cur, dataBag, kitchen, error>>
mvars == <<mpc, accumulator, incoming, merged, calls>>
vars == <<wvars, cvars, mvars>>

----------------------------------------------------------------------------
(* Bounds *)

MaxRuns == 2
MaxNodes == 2
MaxLayers == 2

----------------------------------------------------------------------------
(* The convergence workflow *)

NoAddr == "absent"
NoOutput == [failed |-> FALSE, notfound |-> FALSE, fatal |-> FALSE,
             runcomplete |-> FALSE, handlerscomplete |-> FALSE]

NoNode == [dummy |-> FALSE, tags |-> {}, ipaddress |-> NoAddr]

\* The node objects a run may be given: `dummy` is the truth value of
\* node.get('dummy'), `tags` is node.get('tags', []), `ipaddress` the value
\* of the key or NoAddr when the key is missing.
WorkflowNodes ==
    [dummy : BOOLEAN, tags : {{}, {"dummy"}},
     ipaddress : {NoAddr, "10.0.0.5"}]

Loglevels == {"info", "debug"}
EnvNames == {"production"}

\* An agent output, as the substrings the classification looks for, with
\* the invocation's failed flag.
Outputs ==
    [failed : BOOLEAN, notfound : BOOLEAN, fatal : BOOLEAN,
     runcomplete : BOOLEAN, handlerscomplete : BOOLEAN]

\* json.dumps(node, indent=4, sort_keys=True) as written by save_config.
Serialize(n) == [by |-> "save_config", node |-> n]
\* The same record after an operator edited the file by hand.
HandEdited(c) == [by |-> "operator", node |-> c.node]

\* Faulty variant: only the flag is looked at, not the tags.
IsDummy_flag_only(n) == n.dummy

IsDummy(n) == n.dummy \/ "dummy" \in n.tags

\* Faulty variant: nodes/<host>.json is written on every run.
FilesToCreate_always(exists, f) == {"tmp", "durable"}

FilesToCreate(exists, f) ==
    {"tmp"} \cup (IF ~exists \/ f THEN {"durable"} ELSE {})

\* `env.loglevel is not "debug"`: an identity test on strings. Two equal
\* strings may or may not be the same object, so for "debug" either answer
\* is possible; an unequal string is never the same object.
LoglevelIsNotDebug(l) == IF l = "debug" THEN BOOLEAN ELSE {TRUE}

\* Faulty variant: no finally clause, a raise leaves sync_node at once.
ExitTry_no_finally == "done"

\* Where control goes when a step inside the try block raises (abort and
\* sys.exit both raise SystemExit): the finally clause.
ExitTry == "cleanup"

\* Faulty variant: one missing completion marker is already a failure.
Classify_either_marker(out) ==
    IF out.failed \/ out.fatal \/ ~out.runcomplete \/ ~out.handlerscomplete
    THEN IF out.notfound THEN "AgentMissing" ELSE "AgentFailed"
    ELSE "Success"

\* Faulty variant: the invocation's failed flag is not looked at.
Classify_ignore_status(out) ==
    IF out.fatal \/ (~out.runcomplete /\ ~out.handlerscomplete)
    THEN IF out.notfound THEN "AgentMissing" ELSE "AgentFailed"
    ELSE "Success"

\* The classification of the agent's output in _configure_node.
Classify(out) ==
    IF out.failed \/ out.fatal \/ (~out.runcomplete /\ ~out.handlerscomplete)
    THEN IF out.notfound THEN "AgentMissing" ELSE "AgentFailed"
    ELSE "Success"

\* _ensure_environments_exist: the files under environments/ afterwards.
EnsureFiles(files, create_from_template) ==
    IF create_from_template
    THEN [e \in DOMAIN files \cup usedEnvs |->
            IF e \in DOMAIN files THEN files[e] ELSE "template"]
    ELSE files

Step(s) == steps' = Append(steps, s)

\* Faulty variant: _configure_node is called before _synchronize_node.
Then_agent_before_sync(p) ==
    CASE p = "sync_node" -> "configure"
      [] p = "configure" -> "ipaddress"
      [] p = "ipaddress" -> "save"
      [] p = "save" -> "rotate_log"
      [] p = "rotate_log" -> "agent"
      [] p = "agent" -> "put_node"
      [] p = "put_node" -> "rm_tmp"
      [] p = "rm_tmp" -> "put_secret"
      [] p = "put_secret" -> "ensure_envs"
      [] p = "ensure_envs" -> "rsync"
      [] p = "rsync" -> "cleanup"
      [] p = "cleanup" -> "done"

\* The program order of sync_node (lines 77-94), _synchronize_node (127-154)
\* and _configure_node (352-388): where control is after the step at p has
\* completed normally.
Then(p) ==
    CASE p = "sync_node" -> "configure"
      [] p = "configure" -> "ipaddress"
      [] p = "ipaddress" -> "save"
      [] p = "save" -> "put_node"
      [] p = "put_node" -> "rm_tmp"
      [] p = "rm_tmp" -> "put_secret"
      [] p = "put_secret" -> "ensure_envs"
      [] p = "ensure_envs" -> "rsync"
      [] p = "rsync" -> "rotate_log"
      [] p = "rotate_log" -> "agent"
      [] p = "agent" -> "cleanup"
      [] p = "cleanup" -> "done"

\* Faulty variant: the host is asked whatever the node holds.
address_missing_always(n) == TRUE

\* _get_ipaddress, line 59: "ipaddress" not in node.
address_missing(n) == n.ipaddress = NoAddr

\* The caller hands a node to sync_node.
StartRun(n, l, s) ==
    /\ pc = "idle"
    /\ runs < MaxRuns
    /\ runs' = runs + 1
    /\ node' = n
    /\ loglevel' = l
    /\ secret' = s
    /\ ohai_output' = "none"
    /\ force' = FALSE
    /\ durable0' = durable
    /\ output' = NoOutput
    /\ result' = "none"
    /\ steps' = <<>>
    /\ pc' = "sync_node"
    /\ UNCHANGED <<durable, tmpfile, envDir, envFiles, usedEnvs, remoteNodeJson,
                   remoteSecret, remoteDataBag, remoteEnvs>>
    /\ UNCHANGED <<cvars, mvars>>

\* Between two runs the operator edits nodes/<host>.json by hand.
OperatorEdit ==
    /\ pc = "idle"
    /\ durable # <<>>
    /\ durable[1].by # "operator"
    /\ durable' = <<HandEdited(durable[1])>>
    /\ UNCHANGED <<pc, node, loglevel, secret, ohai_output, force, durable0, tmpfile, envDir,
                   envFiles, usedEnvs, remoteNodeJson, remoteSecret,
                   remoteDataBag, remoteEnvs, output, result, steps, runs>>
    /\ UNCHANGED <<cvars, mvars>>

\* sync_node, lines 77-79: the dummy check.
sync_node_dummy ==
    /\ pc = "sync_node"
    /\ IF IsDummy(node)
       THEN /\ result' = "Skipped"
            /\ pc' = "done"
       ELSE /\ result' = result
            /\ pc' = Then("sync_node")
    /\ UNCHANGED <<node, loglevel, secret, ohai_output, force, durable, durable0, tmpfile,
                   envDir, envFiles, usedEnvs, remoteNodeJson, remoteSecret,
                   remoteDataBag, remoteEnvs, output, steps, runs>>
    /\ UNCHANGED <<cvars, mvars>>

\* sync_node, lines 80-82: solo.configure(current_node).
sync_node_configure ==
    /\ pc = "configure"
    /\ Step("configure")
    /\ pc' = Then("configure")
    /\ UNCHANGED <<node, loglevel, secret, ohai_output, force, durable, durable0, tmpfile,
                   envDir, envFiles, usedEnvs, remoteNodeJson, remoteSecret,
                   remoteDataBag, remoteEnvs, output, result, runs>>
    /\ UNCHANGED <<cvars, mvars>>

\* _get_ipaddress(node). ohai: "ok" gives a parsable address, "garbled" an
\* output json.loads rejects, "failed" a failed command. The step is
\* "discover"; "ohai" is the query, made only when the address is missing.
_get_ipaddress(ohai) ==
    /\ pc = "ipaddress"
    /\ IF address_missing(node)
       THEN /\ steps' = steps \o <<"discover", "ohai">>
            /\ ohai_output' = ohai
            /\ CASE ohai = "ok" ->
                      /\ node' = [node EXCEPT !.ipaddress = "10.0.0.9"]
                      /\ force' = TRUE
                      /\ pc' = Then("ipaddress")
                      /\ result' = result
                 [] ohai = "garbled" ->
                      /\ pc' = "done"
                      /\ result' = "EncodingError"
                      /\ UNCHANGED <<node, force>>
                 [] OTHER ->
                      /\ force' = FALSE
                      /\ pc' = Then("ipaddress")
                      /\ UNCHANGED <<node, result>>
       ELSE /\ ohai = "failed"
            /\ Step("discover")
            /\ force' = FALSE
            /\ pc' = Then("ipaddress")
            /\ UNCHANGED <<node, ohai_output, result>>
    /\ UNCHANGED <<loglevel, secret, durable, durable0, tmpfile, envDir,
                   envFiles, usedEnvs, remoteNodeJson, remoteSecret,
                   remoteDataBag, remoteEnvs, output, runs>>
    /\ UNCHANGED <<cvars, mvars>>

\* save_config(node, force).
save_config ==
    /\ pc = "save"
    /\ Step("save")
    /\ LET files == FilesToCreate(durable # <<>>, force) IN
         /\ tmpfile' = IF "tmp" \in files THEN <<Serialize(node)>> ELSE tmpfile
         /\ durable' = IF "durable" \in files THEN <<Serialize(node)>> ELSE durable
    /\ pc' = Then("save")
    /\ UNCHANGED <<node, loglevel, secret, ohai_output, force, durable0, envDir, envFiles,
                   usedEnvs, remoteNodeJson, remoteSecret, remoteDataBag,
                   remoteEnvs, output, result, runs>>
    /\ UNCHANGED <<cvars, mvars>>

\* _synchronize_node, lines 127-131: upload node.json and chown it.
_synchronize_node_put(outcome) ==
    /\ pc = "put_node"
    /\ Step("put_node")
    /\ CASE outcome = "ok" ->
              /\ remoteNodeJson' = TRUE
              /\ pc' = Then("put_node")
              /\ result' = result
         [] outcome = "put_failed" ->
              /\ remoteNodeJson' = remoteNodeJson
              /\ pc' = ExitTry
              /\ result' = "TransferError"
         [] OTHER ->
              /\ remoteNodeJson' = TRUE
              /\ pc' = ExitTry
              /\ result' = "TransferError"
    /\ UNCHANGED <<node, loglevel, secret, ohai_output, force, durable, durable0, tmpfile,
                   envDir, envFiles, usedEnvs, remoteSecret, remoteDataBag,
                   remoteEnvs, output, runs>>
    /\ UNCHANGED <<cvars, mvars>>

\* _synchronize_node, lines 132-133: os.remove(configfile).
_synchronize_node_remove ==
    /\ pc = "rm_tmp"
    /\ Step("rm_tmp")
    /\ tmpfile' = <<>>
    /\ pc' = Then("rm_tmp")
    /\ UNCHANGED <<node, loglevel, secret, ohai_output, force, durable, durable0, envDir,
                   envFiles, usedEnvs, remoteNodeJson, remoteSecret,
                   remoteDataBag, remoteEnvs, output, result, runs>>
    /\ UNCHANGED <<cvars, mvars>>

\* _synchronize_node, lines 141-146: upload the secret when one is configured.
_synchronize_node_secret(ok) ==
    /\ pc = "put_secret"
    /\ IF secret
       THEN /\ Step("put_secret")
            /\ IF ok
               THEN /\ remoteSecret' = TRUE
                    /\ pc' = Then("put_secret")
                    /\ result' = result
               ELSE /\ remoteSecret' \in {remoteSecret, TRUE}
                    /\ pc' = ExitTry
                    /\ result' = "TransferError"
       ELSE /\ ok
            /\ pc' = Then("put_secret")
            /\ UNCHANGED <<remoteSecret, result, steps>>
    /\ UNCHANGED <<node, loglevel, secret, ohai_output, force, durable, durable0, tmpfile,
                   envDir, envFiles, usedEnvs, remoteNodeJson, remoteDataBag,
                   remoteEnvs, output, runs>>
    /\ UNCHANGED <<cvars, mvars>>

\* _synchronize_node, line 147: _ensure_environments_exist().
_ensure_environments_exist ==
    /\ pc = "ensure_envs"
    /\ Step("ensure_envs")
    /\ envDir' = TRUE
    /\ envFiles' = EnsureFiles(envFiles, FALSE)
    /\ pc' = Then("ensure_envs")
    /\ UNCHANGED <<node, loglevel, secret, ohai_output, force, durable, durable0, tmpfile,
                   usedEnvs, remoteNodeJson, remoteSecret, remoteDataBag,
                   remoteEnvs, output, result, runs>>
    /\ UNCHANGED <<cvars, mvars>>

\* _synchronize_node, lines 148-154: rsync_project of the kitchen.
_synchronize_node_rsync(ok) ==
    /\ pc = "rsync"
    /\ Step("rsync")
    /\ IF ok
       THEN /\ remoteDataBag' = TRUE
            /\ remoteEnvs' = DOMAIN envFiles
            /\ pc' = Then("rsync")
            /\ result' = result
       ELSE /\ remoteDataBag' \in {remoteDataBag, TRUE}
            /\ remoteEnvs' = remoteEnvs
            /\ pc' = ExitTry
            /\ result' = "TransferError"
    /\ UNCHANGED <<node, loglevel, secret, ohai_output, force, durable, durable0, tmpfile,
                   envDir, envFiles, usedEnvs, remoteNodeJson, remoteSecret,
                   output, runs>>
    /\ UNCHANGED <<cvars, mvars>>

\* _configure_node, lines 352-354: rotate the previous run log (warn_only).
_configure_node_rotate ==
    /\ pc = "rotate_log"
    /\ Step("rotate_log")
    /\ pc' = Then("rotate_log")
    /\ UNCHANGED <<node, loglevel, secret, ohai_output, force, durable, durable0, tmpfile,
                   envDir, envFiles, usedEnvs, remoteNodeJson, remoteSecret,
                   remoteDataBag, remoteEnvs, output, result, runs>>
    /\ UNCHANGED <<cvars, mvars>>

\* _configure_node, lines 355-388: run chef-solo and classify its output.
_configure_node(out) ==
    /\ pc = "agent"
    /\ Step("agent")
    /\ output' = out
    /\ result' = Classify(out)
    /\ pc' = IF Classify(out) = "Success" THEN Then("agent") ELSE ExitTry
    /\ UNCHANGED <<node, loglevel, secret, ohai_output, force, durable, durable0, tmpfile,
                   envDir, envFiles, usedEnvs, remoteNodeJson, remoteSecret,
                   remoteDataBag, remoteEnvs, runs>>
    /\ UNCHANGED <<cvars, mvars>>

\* _node_cleanup, the finally clause of sync_node. The remote commands it
\* issues are taken to succeed on a host that is reachable.
_node_cleanup(isnot) ==
    /\ pc = "cleanup"
    /\ Step("cleanup")
    /\ isnot \in LoglevelIsNotDebug(loglevel)
    /\ IF isnot
       THEN /\ remoteDataBag' = FALSE
            /\ remoteNodeJson' = FALSE
            /\ remoteSecret' = IF secret THEN FALSE ELSE remoteSecret
       ELSE UNCHANGED <<remoteDataBag, remoteNodeJson, remoteSecret>>
    /\ pc' = Then("cleanup")
    /\ UNCHANGED <<node, loglevel, secret, ohai_output, force, durable, durable0, tmpfile,
                   envDir, envFiles, usedEnvs, remoteEnvs, output, result, runs>>
    /\ UNCHANGED <<cvars, mvars>>

\* sync_node has returned (or the exception has left it); what belonged to
\* the call is forgotten, the files and the host stay as they are.
Return ==
    /\ pc = "done"
    /\ pc' = "idle"
    /\ node' = NoNode
    /\ loglevel' = "info"
    /\ secret' = FALSE
    /\ ohai_output' = "none"
    /\ force' = FALSE
    /\ durable0' = durable
    /\ output' = NoOutput
    /\ result' = "none"
    /\ steps' = <<>>
    /\ UNCHANGED <<durable, tmpfile, envDir, envFiles, usedEnvs, remoteNodeJson,
                   remoteSecret, remoteDataBag, remoteEnvs, runs>>
    /\ UNCHANGED <<cvars, mvars>>

\* update_dct is not being exercised on its own.
MergeOff ==
    /\ mpc = "off"
    /\ accumulator = <<>>
    /\ incoming = <<>>
    /\ merged = <<>>
    /\ calls = 0

Init ==
    /\ pc = "idle"
    /\ node = NoNode
    /\ loglevel = "info"
    /\ secret = FALSE
    /\ ohai_output = "none"
    /\ force = FALSE
    /\ durable \in {<<>>, <<HandEdited(Serialize(NoNode))>>}
    /\ durable0 = durable
    /\ tmpfile = <<>>
    /\ envDir \in BOOLEAN
    /\ usedEnvs \in SUBSET EnvNames
    /\ envFiles \in IF envDir
                    THEN UNION {[S -> {"checked_in"}] : S \in SUBSET EnvNames}
                    ELSE {<<>>}
    /\ remoteNodeJson = FALSE
    /\ remoteSecret = FALSE
    /\ remoteDataBag = FALSE
    /\ remoteEnvs = {}
    /\ output = NoOutput
    /\ result = "none"
    /\ steps = <<>>
    /\ runs = 0
    /\ cpc = "off"
    /\ nodes = <<>>
    /\ cur = 0
    /\ dataBag = <<>>
    /\ kitchen = <<>>
    /\ error = <<>>
    /\ MergeOff

----------------------------------------------------------------------------
(* Values of node, role, environment and attribute records.                *)
(* A Python value is a tagged record: a scalar leaf, a boolean, None, a    *)
(* string kept as its characters (names, on which replace and split act),  *)
(* a list of names, a run list, or a dict (a function from keys to values).*)

Leaf(s) == [t |-> "leaf", v |-> s]
Bool(b) == [t |-> "bool", b |-> b]
None == [t |-> "none"]
Str(cs) == [t |-> "str", s |-> cs]
List(q) == [t |-> "list", l |-> q]
RunList(q) == [t |-> "run_list", items |-> q]
Map(f) == [t |-> "map", m |-> f]
\* An uncaught TypeError or AttributeError.
Err == [t |-> "err"]

IsErr(v) == v.t = "err"
IsMap(v) == v.t = "map"
EmptyMap == Map(<<>>)
Put(f, k, v) == [x \in DOMAIN f \cup {k} |-> IF x = k THEN v ELSE f[x]]
Map1(k, v) == Map(Put(<<>>, k, v))
Map2(k1, v1, k2, v2) == Map(Put(Put(<<>>, k1, v1), k2, v2))

\* The orders in which list(set(...)) may hand back the elements of S.
Orders(S) ==
    {q \in [1..Cardinality(S) -> S] : \A i, j \in DOMAIN q : i # j => q[i] # q[j]}

RECURSIVE Flatten(_)
Flatten(qq) == IF qq = <<>> THEN <<>> ELSE Head(qq) \o Flatten(Tail(qq))
Range(q) == {q[i] : i \in DOMAIN q}

----------------------------------------------------------------------------
(* The kitchen: what lib.get_roles(), lib.get_recipes() and                *)
(* lib.get_environment() read from roles/, cookbooks/ and environments/.   *)

RoleItem(r) == [kind |-> "role", name |-> r]
RecipeItem(r) == [kind |-> "recipe", name |-> r]

all_roles ==
    << [name |-> "base",
        default_attributes |-> Map2("a", Leaf("base_default"),
                                    "flag", Leaf("false")),
        override_attributes |-> Map1("a", Leaf("base_override")),
        run_list |-> <<>>],
       [name |-> "web",
        default_attributes |-> Map2("a", Leaf("web_default"),
                                    "n", Map1("y", Leaf("web_default"))),
        override_attributes |-> Map1("b", Leaf("false")),
        run_list |-> <<RecipeItem("nginx")>>],
       [name |-> "db",
        default_attributes |-> EmptyMap,
        override_attributes |-> Map1("a", Leaf("db_override")),
        run_list |-> <<>>],
       [name |-> "lamp",
        default_attributes |-> EmptyMap,
        override_attributes |-> EmptyMap,
        run_list |-> <<RoleItem("web"), RoleItem("db"), RecipeItem("php")>>],
       [name |-> "alias",
        default_attributes |-> Map1("fqdn", Str(<<"w", "w", "w">>)),
        override_attributes |-> Map1("name", Str(<<"w", "w", "w">>)),
        run_list |-> <<>>] >>

\* One record per recipe, with the attribute schema of its cookbook's
\* metadata: the compound key split at "/", the declared type and default,
\* in the order the dict hands them out.
all_recipes ==
    << [name |-> "nginx",
        attributes |-> << [path |-> <<"a">>, type |-> "string",
                           default |-> Leaf("cookbook_default")],
                          [path |-> <<"flag">>, type |-> "string",
                           default |-> Leaf("true")],
                          [path |-> <<"b">>, type |-> "string",
                           default |-> Leaf("false")] >>],
       [name |-> "php",
        attributes |-> << [path |-> <<"n">>, type |-> "hash",
                           default |-> Leaf("ignored")],
                          [path |-> <<"n", "x">>, type |-> "string",
                           default |-> Leaf("cookbook_default")] >>] >>

environments ==
    [e \in {"_default", "production", "staging", "qa"} |->
       [default_attributes |->
            IF e \in {"production", "staging"}
            THEN Map2("a", Leaf("environment_default"), "b", Leaf("true"))
            ELSE EmptyMap,
        override_attributes |->
            IF e \in {"production", "qa"}
            THEN Map2("a", Leaf("environment_override"), "flag", Leaf("true"))
            ELSE EmptyMap]]

RoleNames == {all_roles[i].name : i \in DOMAIN all_roles}
RecipeNames == {all_recipes[i].name : i \in DOMAIN all_recipes}
RoleNamed(r) == all_roles[CHOOSE i \in DOMAIN all_roles : all_roles[i].name = r]

get_environment(name) == environments[name]

\* lib.get_roles_in_node / lib.get_recipes_in_node: the roles and the
\* recipes of a run list, in the order they are declared.
ItemsOfKind(items, kind) ==
    LET sel == SelectSeq(items, LAMBDA it : it.kind = kind)
    IN  [i \in DOMAIN sel |-> sel[i].name]
get_roles_in_node(n) == ItemsOfKind(n.m["run_list"].items, "role")
get_recipes_in_node(n) == ItemsOfKind(n.m["run_list"].items, "recipe")
get_recipes_in_role(r) == ItemsOfKind(RoleNamed(r).run_list, "recipe")

\* lib.get_roles_in_role: the roles a role includes, and those they include.
RECURSIVE get_roles_in_role(_)
get_roles_in_role(r) ==
    LET direct == ItemsOfKind(RoleNamed(r).run_list, "role")
    IN  direct \o Flatten([i \in DOMAIN direct |-> get_roles_in_role(direct[i])])

----------------------------------------------------------------------------
(* The attribute merge engine *)

\* Faulty variant: the default is stored as the schema gives it.
leaf_value_as_given(value) == value

\* build_dct, lines 164-168: the strings "false" and "true" become booleans.
leaf_value(value) ==
    IF value = Leaf("false") THEN Bool(FALSE)
    ELSE IF value = Leaf("true") THEN Bool(TRUE)
    ELSE value

\* build_dct(dic, keys, value): value at the path `keys` of dic.
RECURSIVE build_dct(_, _, _)
build_dct(dic, keys, value) ==
    IF ~IsMap(dic) THEN Err
    ELSE LET key == Head(keys) IN
         IF Len(keys) > 1
         THEN LET old == IF key \in DOMAIN dic.m THEN dic.m[key] ELSE EmptyMap
                  sub == build_dct(old, Tail(keys), value)
              IN  IF IsErr(sub) THEN Err ELSE Map(Put(dic.m, key, sub))
         ELSE Map(Put(dic.m, key, leaf_value(value)))

\* Faulty variant: dict.update, a sub-map of the layer replaces the
\* accumulator's.
update_dct_shallow(dic1, dic2) ==
    Map([k \in DOMAIN dic1.m \cup DOMAIN dic2.m |->
           IF k \in DOMAIN dic2.m THEN dic2.m[k] ELSE dic1.m[k]])

\* update_dct(dic1, dic2): dic1 after the recursive merge of dic2 into it.
RECURSIVE update_dct(_, _)
RECURSIVE update_keys(_, _, _)
update_keys(dic1, dic2, ks) ==
    IF ks = {} THEN dic1
    ELSE IF ~IsMap(dic1) THEN Err
    ELSE LET key == CHOOSE k \in ks : TRUE
             val == dic2.m[key]
             new == IF IsMap(val)
                    THEN LET old == IF key \in DOMAIN dic1.m
                                    THEN dic1.m[key] ELSE EmptyMap
                             sub == update_dct(old, val)
                         IN  IF IsErr(sub) THEN Err
                             ELSE Map(Put(dic1.m, key, sub))
                    ELSE Map(Put(dic1.m, key, val))
         IN  IF IsErr(new) THEN Err ELSE update_keys(new, dic2, ks \ {key})
update_dct(dic1, dic2) == update_keys(dic1, dic2, DOMAIN dic2.m)

\* _add_merged_attributes, lines 223-230: the schema of one catalog recipe.
RECURSIVE recipe_attributes(_, _)
recipe_attributes(attributes, schema) ==
    IF schema = <<>> \/ IsErr(attributes) THEN attributes
    ELSE LET attr == Head(schema)
             value == IF attr.type = "hash" THEN EmptyMap ELSE attr.default
         IN  recipe_attributes(build_dct(attributes, attr.path, value),
                               Tail(schema))

RECURSIVE matching_recipes(_, _)
matching_recipes(attributes, rs) ==
    IF rs = <<>> \/ IsErr(attributes) THEN attributes
    ELSE matching_recipes(recipe_attributes(attributes, Head(rs).attributes),
                          Tail(rs))

\* Faulty variant: a recipe that is not found is passed over.
recipe_not_found_ignored(found, recipe, n) == <<>>

\* _add_merged_attributes, lines 231-234: the abort for a recipe not found.
recipe_not_found(found, recipe, n) ==
    IF ~found
    THEN <<[t |-> "abort", recipe |-> recipe, node |-> n.m["name"]]>>
    ELSE <<>>

\* _add_merged_attributes, lines 216-234: the cookbook defaults of the
\* node's recipes, or the abort.
RECURSIVE cookbook_defaults(_, _, _, _)
cookbook_defaults(attributes, recipes, n, catalog) ==
    IF recipes = <<>> THEN attributes
    ELSE LET recipe == Head(recipes)
             found == SelectSeq(catalog, LAMBDA r : r.name = recipe)
             attrs == matching_recipes(attributes, found)
             raised == recipe_not_found(found # <<>>, recipe, n)
         IN  IF IsErr(attrs) THEN Err
             ELSE IF raised # <<>> THEN raised[1]
             ELSE cookbook_defaults(attrs, Tail(recipes), n, catalog)

\* The role records matching the node's roles, in the order of node['roles'].
roles_of(n, catalog) ==
    Flatten([i \in DOMAIN n.m["roles"].l |->
               SelectSeq(catalog, LAMBDA r : r.name = n.m["roles"].l[i])])

non_attribute_fields ==
    {"id", "name", "role", "roles", "recipes", "run_list", "ipaddress"}

node_attributes(n) ==
    Map([k \in DOMAIN n.m \ non_attribute_fields |-> n.m[k]])

\* Faulty variant: the node's normal attributes are merged last.
layers_node_last(n, catalog) ==
    LET rs == roles_of(n, catalog)
        environment == get_environment(n.m["chef_environment"].v)
    IN  [i \in DOMAIN rs |-> rs[i].default_attributes]
        \o <<environment.default_attributes>>
        \o [i \in DOMAIN rs |-> rs[i].override_attributes]
        \o <<environment.override_attributes>>
        \o <<node_attributes(n)>>

\* _add_merged_attributes, lines 236-264: the layers merged over the
\* cookbook defaults, in the order the code merges them.
layers(n, catalog) ==
    LET rs == roles_of(n, catalog)
        environment == get_environment(n.m["chef_environment"].v)
    IN  [i \in DOMAIN rs |-> rs[i].default_attributes]
        \o <<environment.default_attributes>>
        \o <<node_attributes(n)>>
        \o [i \in DOMAIN rs |-> rs[i].override_attributes]
        \o <<environment.override_attributes>>

RECURSIVE merge_layers(_, _)
merge_layers(attributes, ls) ==
    IF ls = <<>> \/ IsErr(attributes) THEN attributes
    ELSE merge_layers(update_dct(attributes, Head(ls)), Tail(ls))

\* The attributes _add_merged_attributes computes: a map, Err or the abort.
merged_attributes(n, recipes_catalog, roles_catalog) ==
    LET defaults == cookbook_defaults(EmptyMap, n.m["recipes"].l, n,
                                      recipes_catalog)
    IN  IF ~IsMap(defaults) THEN defaults
        ELSE merge_layers(defaults, layers(n, roles_catalog))

\* _add_merged_attributes: the node after node.update(attributes).
_add_merged_attributes(n, recipes_catalog, roles_catalog) ==
    LET attributes == merged_attributes(n, recipes_catalog, roles_catalog)
    IN  IF ~IsMap(attributes) THEN attributes
        ELSE Map([k \in DOMAIN n.m \cup DOMAIN attributes.m |->
                    IF k \in DOMAIN attributes.m THEN attributes.m[k]
                    ELSE n.m[k]])

\* str.replace('.', '_') and str.split('.') on a string of characters.
Replace(cs, from, to) == [i \in DOMAIN cs |-> IF cs[i] = from THEN to ELSE cs[i]]
FirstDot(cs) ==
    IF \E i \in DOMAIN cs : cs[i] = "."
    THEN CHOOSE i \in DOMAIN cs :
            cs[i] = "." /\ \A j \in 1..(i - 1) : cs[j] # "."
    ELSE Len(cs) + 1

_add_automatic_attributes(n) ==
    IF n.m["name"].t # "str" THEN Err
    ELSE LET fqdn == n.m["name"].s
             dot == FirstDot(fqdn)
         IN  Map(Put(Put(Put(n.m, "fqdn", Str(fqdn)),
                         "hostname", Str(SubSeq(fqdn, 1, dot - 1))),
                     "domain", Str(SubSeq(fqdn, dot + 1, Len(fqdn)))))

\* build_node_data_bag, lines 297-301: node['roles'] as extended with the
\* roles of every declared role, before line 302.
extended_roles(n) ==
    LET role == get_roles_in_node(n)
    IN  role \o Flatten([i \in DOMAIN role |-> get_roles_in_role(role[i])])

\* build_node_data_bag, lines 297-302: the set behind node['roles'].
expanded_roles(n) == Range(extended_roles(n))

\* build_node_data_bag, lines 304-308: node['recipes'] as extended with the
\* recipes of every role in node['roles'], before line 309.
extended_recipes(n, roles) ==
    get_recipes_in_node(n)
    \o Flatten([i \in DOMAIN roles |-> get_recipes_in_role(roles[i])])

\* build_node_data_bag, lines 304-309: the set behind node['recipes'].
expanded_recipes(n, roles) == Range(extended_recipes(n, roles))

\* Faulty variant: the list is kept as it was built.
list_set_kept(q) == {q}

\* list(set(q)), lines 302 and 309: the elements of q, each once, in any of
\* the orders the set may hand them back.
list_set(q) == Orders(Range(q))

----------------------------------------------------------------------------
(* The merge on objects: a dict is an object with an identity, update_dct  *)
(* changes dic1 in place, and what it stores under a key is either a       *)
(* scalar or a reference to a dict. A dict is known by its address, the    *)
(* path of keys that led to it when it was created; a heap maps the        *)
(* addresses of the dicts created so far to what they hold.                *)

Ref(a) == [t |-> "ref", a |-> a]
IsRef(v) == v.t = "ref"
Heap(o) == [t |-> "heap", o |-> o]

\* The value found in v along the keys of path.
RECURSIVE value_at(_, _)
value_at(v, path) ==
    IF path = <<>> THEN v ELSE value_at(v.m[Head(path)], Tail(path))

\* The addresses of the dicts of the value v, itself at the address a.
RECURSIVE addresses(_, _)
addresses(a, v) ==
    IF ~IsMap(v) THEN {}
    ELSE {a} \cup UNION {addresses(Append(a, k), v.m[k]) : k \in DOMAIN v.m}

\* The heap holding the value v as json.load, {} and deepcopy create it:
\* one dict per map of v, each under its own address.
objects(v) ==
    Heap([a \in addresses(<<>>, v) |->
            LET d == value_at(v, a).m
            IN  [k \in DOMAIN d |->
                   IF IsMap(d[k]) THEN Ref(Append(a, k)) ELSE d[k]]])

\* The value an object holds, its dicts followed to the leaves.
RECURSIVE deref(_, _)
deref(h, v) ==
    IF IsRef(v) THEN Map([k \in DOMAIN h.o[v.a] |-> deref(h, h.o[v.a][k])])
    ELSE v

\* Faulty variant: a key new to dic1 is given the layer's own dict.
setdefault_shared(h, a1, key, val) ==
    IF key \in DOMAIN h.o[a1] THEN h
    ELSE Heap([h.o EXCEPT ![a1] = Put(@, key, val)])

\* update_dct, line 180: dic1.setdefault(key, {}). A key new to dic1 is
\* given a dict of its own; val, the layer's dict, is not stored.
setdefault(h, a1, key, val) ==
    IF key \in DOMAIN h.o[a1] THEN h
    ELSE Heap(Put([h.o EXCEPT ![a1] = Put(@, key, Ref(Append(a1, key)))],
                  Append(a1, key), <<>>))

\* update_dct(dic1, dic2) on the dicts at a1 and a2: the heap afterwards,
\* or Err.
RECURSIVE update_dct_in_place(_, _, _)
RECURSIVE update_items_in_place(_, _, _, _)
update_items_in_place(h, a1, a2, ks) ==
    IF ks = {} THEN h
    ELSE LET key == CHOOSE k \in ks : TRUE
             val == h.o[a2][key]
             h1 == IF IsRef(val)
                   THEN LET hs == setdefault(h, a1, key, val)
                        IN  update_dct_in_place(hs, hs.o[a1][key], val.a)
                   ELSE Heap([h.o EXCEPT ![a1] = Put(@, key, val)])
         IN  IF IsErr(h1) THEN Err
             ELSE update_items_in_place(h1, a1, a2, ks \ {key})
update_dct_in_place(h, dic1, a2) ==
    IF DOMAIN h.o[a2] = {} THEN h
    ELSE IF ~IsRef(dic1) THEN Err
    ELSE update_items_in_place(h, dic1.a, a2, DOMAIN h.o[a2])

RECURSIVE merge_in_place(_, _, _)
merge_in_place(h, attributes, ls) ==
    IF ls = <<>> \/ IsErr(h) THEN h
    ELSE merge_in_place(update_dct_in_place(h, attributes, Head(ls).a),
                        attributes, Tail(ls))

\* What lib.get_roles(), lib.get_recipes() and lib.get_environment() have
\* read into memory.
LoadedKitchen ==
    [roles |-> all_roles, recipes |-> all_recipes, environments |-> environments]

\* _add_merged_attributes, lines 236-264, on objects: the records of the
\* catalog after the call. The names in scope are all_roles, environment,
\* attributes, which build_dct has built out of copies (line 170), and
\* node_attributes, a new dict (line 250); the dicts of the roles and of
\* the environment are the ones the catalog holds.
catalog_after(n, cat) ==
    LET e == n.m["chef_environment"].v
        names == {cat.roles[i].name : i \in DOMAIN cat.roles}
        named(r) == cat.roles[CHOOSE i \in DOMAIN cat.roles :
                                 cat.roles[i].name = r]
        defaults == cookbook_defaults(EmptyMap, n.m["recipes"].l, n, cat.recipes)
        scope ==
            Map(Put(Put(Put(Put(<<>>,
                "all_roles",
                Map([r \in names |->
                       Map2("default_attributes", named(r).default_attributes,
                            "override_attributes", named(r).override_attributes)])),
                "environment",
                Map2("default_attributes", cat.environments[e].default_attributes,
                     "override_attributes", cat.environments[e].override_attributes)),
                "attributes", defaults),
                "node_attributes", node_attributes(n)))
        rs == SelectSeq(n.m["roles"].l, LAMBDA r : r \in names)
        h == merge_in_place(objects(scope), Ref(<<"attributes">>),
                [i \in DOMAIN rs |->
                   Ref(<<"all_roles", rs[i], "default_attributes">>)]
                \o <<Ref(<<"environment", "default_attributes">>)>>
                \o <<Ref(<<"node_attributes">>)>>
                \o [i \in DOMAIN rs |->
                      Ref(<<"all_roles", rs[i], "override_attributes">>)]
                \o <<Ref(<<"environment", "override_attributes">>)>>)
    IN  IF ~IsMap(defaults) \/ IsErr(h) THEN cat
        ELSE [roles |->
                 [i \in DOMAIN cat.roles |->
                    [cat.roles[i] EXCEPT
                       !.default_attributes =
                          deref(h, Ref(<<"all_roles", cat.roles[i].name,
                                         "default_attributes">>)),
                       !.override_attributes =
                          deref(h, Ref(<<"all_roles", cat.roles[i].name,
                                         "override_attributes">>))]],
              recipes |-> cat.recipes,
              environments |->
                 [cat.environments EXCEPT
                    ![e] = [default_attributes |->
                               deref(h, Ref(<<"environment",
                                              "default_attributes">>)),
                            override_attributes |->
                               deref(h, Ref(<<"environment",
                                              "override_attributes">>))]]]

----------------------------------------------------------------------------
(* build_node_data_bag *)

NodeNames == << <<"a", ".", "b", ".", "c">>, <<"d", ".", "e">>, <<"f">>,
                <<"g", ".", "h">> >>

\* Run lists name no role, one role, two roles that do not include one
\* another, or a role together with one it includes.
PairedRoles == {"base", "web", "db"}
DeclaredRoles ==
    {<<>>} \cup {<<r>> : r \in RoleNames}
    \cup {q \in PairedRoles \X PairedRoles : q[1] # q[2]}
    \cup {<<"lamp", "web">>, <<"web", "lamp">>}
DeclaredRecipes == {<<>>, <<"nginx">>, <<"ghost">>, <<"nginx", "ghost">>}
NormalAttributes ==
    {EmptyMap, Map1("a", Leaf("node_normal")),
     Map(Put(Put(Put(<<>>, "a", Leaf("node_normal")),
                     "n", Map1("x", Leaf("node_normal"))),
             "b", Leaf("true")))}

NodeSpec(name, roles, recipes, environment, normal) ==
    Map([k \in {"name", "run_list", "chef_environment"} \cup DOMAIN normal.m |->
           CASE k = "name" -> Str(name)
             [] k = "run_list" ->
                  RunList([i \in DOMAIN roles |-> RoleItem(roles[i])]
                          \o [i \in DOMAIN recipes |-> RecipeItem(recipes[i])])
             [] k = "chef_environment" -> Leaf(environment)
             [] OTHER -> normal.m[k]])

\* The node the batch starts with, and the plain nodes that follow it.
FirstNodes ==
    {NodeSpec(NodeNames[1], ro, re, e, no) :
        ro \in DeclaredRoles, re \in DeclaredRecipes,
        e \in DOMAIN environments, no \in NormalAttributes}
NextNodes(i) ==
    {NodeSpec(NodeNames[i], <<"web">>, <<>>, "_default", EmptyMap),
     NodeSpec(NodeNames[i], <<>>, <<"ghost">>, "_default", EmptyMap)}
RECURSIVE BatchesOf(_)
BatchesOf(n) ==
    IF n = 1 THEN {<<f>> : f \in FirstNodes}
    ELSE {Append(q, x) : q \in BatchesOf(n - 1), x \in NextNodes(n)}
Batches == UNION {BatchesOf(n) : n \in 1..MaxNodes}

StaleBag == Put(<<>>, Str(Replace(NodeNames[2], ".", "_")), Leaf("stale"))

\* The workflow is not running while the data bag is built.
WorkflowIdle ==
    /\ pc = "idle"
    /\ node = NoNode
    /\ loglevel = "info"
    /\ secret = FALSE
    /\ ohai_output = "none"
    /\ force = FALSE
    /\ durable = <<>>
    /\ durable0 = <<>>
    /\ tmpfile = <<>>
    /\ envDir = TRUE
    /\ envFiles = <<>>
    /\ usedEnvs = {}
    /\ remoteNodeJson = FALSE
    /\ remoteSecret = FALSE
    /\ remoteDataBag = FALSE
    /\ remoteEnvs = {}
    /\ output = NoOutput
    /\ result = "none"
    /\ steps = <<>>
    /\ runs = 0

InitCompile ==
    /\ WorkflowIdle
    /\ cpc = "start"
    /\ nodes \in Batches
    /\ cur = 1
    /\ dataBag \in {<<>>, StaleBag}
    /\ kitchen = LoadedKitchen
    /\ error = <<>>
    /\ MergeOff

\* build_node_data_bag, lines 286-292: clear the output area.
build_node_data_bag_start ==
    /\ cpc = "start"
    /\ dataBag' = <<>>
    /\ cpc' = "loop"
    /\ UNCHANGED <<nodes, cur, kitchen, error>>
    /\ UNCHANGED <<wvars, mvars>>

\* build_node_data_bag, lines 293-318: one iteration of the loop. roles and
\* recipes are the orders list(set(...)) gives the two closures. The abort
\* comes before any update_dct, which is where dicts of the catalog are
\* handed over; an uncaught exception ends the process.
build_node_data_bag_node ==
    /\ cpc = "loop"
    /\ cur <= Len(nodes)
    /\ LET n0 == nodes[cur]
           n1 == Map(Put(n0.m, "id", Str(Replace(n0.m["name"].s, ".", "_"))))
           n2 == Map(Put(n1.m, "role", List(get_roles_in_node(n1))))
       IN  \E roles \in list_set(extended_roles(n2)) :
           \E recipes \in list_set(extended_recipes(n2, roles)) :
              LET n3 == Map(Put(Put(n2.m, "roles", List(roles)),
                                "recipes", List(recipes)))
                  n4 == _add_merged_attributes(n3, kitchen.recipes,
                                               kitchen.roles)
                  n5 == IF IsMap(n4) THEN _add_automatic_attributes(n4) ELSE n4
              IN  CASE IsMap(n5) ->
                         /\ dataBag' = Put(dataBag, n5.m["id"], n5)
                         /\ kitchen' = catalog_after(n3, kitchen)
                         /\ cur' = cur + 1
                         /\ UNCHANGED <<cpc, nodes, error>>
                    [] n5.t = "abort" ->
                         /\ error' = <<n5>>
                         /\ cpc' = "aborted"
                         /\ UNCHANGED <<nodes, cur, dataBag, kitchen>>
                    [] OTHER ->
                         /\ cpc' = "crashed"
                         /\ UNCHANGED <<nodes, cur, dataBag, kitchen,
                                        error>>
    /\ UNCHANGED <<wvars, mvars>>

\* build_node_data_bag returns after the last node.
build_node_data_bag_end ==
    /\ cpc = "loop"
    /\ cur > Len(nodes)
    /\ cpc' = "done"
    /\ UNCHANGED <<nodes, cur, dataBag, kitchen, error>>
    /\ UNCHANGED <<wvars, mvars>>

NextCompile ==
    \/ build_node_data_bag_start
    \/ build_node_data_bag_node
    \/ build_node_data_bag_end

SpecCompile == InitCompile /\ [][NextCompile]_vars

----------------------------------------------------------------------------
(* update_dct on its own: an accumulator, and layers merged into it one    *)
(* after the other as _add_merged_attributes does in lines 236-264.        *)

\* The dicts handed to update_dct: flat, nested and doubly nested, with
\* keys that collide as scalar/scalar, map/map, scalar/map and map/scalar.
Dicts ==
    { EmptyMap,
      Map1("a", Leaf("1")),
      Map1("a", Leaf("2")),
      Map1("b", Leaf("2")),
      Map1("a", EmptyMap),
      Map1("a", Map1("x", Leaf("1"))),
      Map1("a", Map1("x", Leaf("2"))),
      Map1("a", Map1("y", Leaf("2"))),
      Map1("a", Map2("x", Leaf("1"), "y", Leaf("1"))),
      Map1("a", Map1("x", Map1("z", Leaf("1")))),
      Map1("a", Map1("x", Map1("w", Leaf("2")))),
      Map2("a", Map1("y", Leaf("2")), "b", Map1("x", Leaf("2"))),
      Map2("a", Leaf("1"), "b", Map1("x", Leaf("1"))) }

CompileOff ==
    /\ cpc = "off"
    /\ nodes = <<>>
    /\ cur = 0
    /\ dataBag = <<>>
    /\ kitchen = <<>>
    /\ error = <<>>

InitMerge ==
    /\ WorkflowIdle
    /\ CompileOff
    /\ mpc = "ready"
    /\ accumulator \in Dicts
    /\ incoming \in Dicts
    /\ merged = <<>>
    /\ calls = 0

\* update_dct(dic1, dic2): the call. dic1 is changed in place; `merged` is
\* what the caller holds afterwards, Err when the call raised.
update_dct_call ==
    /\ mpc = "ready"
    /\ merged' = update_dct(accumulator, incoming)
    /\ mpc' = IF IsErr(merged') THEN "raised" ELSE "merged"
    /\ calls' = calls + 1
    /\ UNCHANGED <<accumulator, incoming>>
    /\ UNCHANGED <<wvars, cvars>>

\* The caller goes on to the next layer with the accumulator it holds.
next_layer(layer) ==
    /\ mpc = "merged"
    /\ calls < MaxLayers
    /\ accumulator' = merged
    /\ incoming' = layer
    /\ merged' = <<>>
    /\ mpc' = "ready"
    /\ UNCHANGED calls
    /\ UNCHANGED <<wvars, cvars>>

NextMerge ==
    \/ update_dct_call
    \/ \E layer \in Dicts : next_layer(layer)

SpecMerge == InitMerge /\ [][NextMerge]_vars

----------------------------------------------------------------------------

Next ==
    \/ \E n \in WorkflowNodes, l \in Loglevels, s \in BOOLEAN : StartRun(n, l, s)
    \/ OperatorEdit
    \/ sync_node_dummy
    \/ sync_node_configure
    \/ \E ohai \in {"ok", "garbled", "failed"} : _get_ipaddress(ohai)
    \/ save_config
    \/ \E o \in {"ok", "put_failed", "chown_failed"} : _synchronize_node_put(o)
    \/ _synchronize_node_remove
    \/ \E ok \in BOOLEAN : _synchronize_node_secret(ok)
    \/ _ensure_environments_exist
    \/ \E ok \in BOOLEAN : _synchronize_node_rsync(ok)
    \/ _configure_node_rotate
    \/ \E out \in Outputs : _configure_node(out)
    \/ \E b \in BOOLEAN : _node_cleanup(b)
    \/ Return

Spec == Init /\ [][Next]_vars

----------------------------------------------------------------------------
(* Properties of the convergence workflow, checked under Spec *)

Ran(s) == s \in Range(steps)
FailureCondition(out) ==
    out.failed \/ out.fatal \/ (~out.runcomplete /\ ~out.handlerscomplete)

\* C2: whenever the agent's output contains the 'chef-solo: command not
\* found' marker the run is classified AgentMissing, whatever other markers
\* it contains and whatever the invocation's success flag.
C2_NotFoundIsAlwaysAgentMissing ==
    (Ran("agent") /\ output.notfound) => result = "AgentMissing"

\* C3: when the tree is about to be transferred, every environment some
\* node refers to has a definition file under environments/.
C3_EnvironmentFilesBeforeTransfer ==
    pc = "rsync" => usedEnvs \subseteq DOMAIN envFiles

C5_CleanupOnEveryExit ==
    (pc = "done" /\ Ran("put_node")) =>
      /\ steps[Len(steps)] = "cleanup"
      /\ result \in {"Success", "TransferError", "AgentFailed", "AgentMissing"}
      /\ loglevel # "debug" =>
           /\ ~remoteNodeJson
           /\ ~remoteDataBag
           /\ secret => ~remoteSecret

C5_Witness ==
    /\ pc = "done"
    /\ result = "AgentMissing"
    /\ Ran("rsync")
    /\ secret
    /\ loglevel = "info"
    /\ steps[Len(steps)] = "cleanup"
    /\ ~remoteNodeJson /\ ~remoteSecret /\ ~remoteDataBag

\* C7: the run is AgentFailed exactly when the output has no not-found
\* marker and the invocation failed, or the output has the stack-trace
\* marker, or it has neither completion marker; an output outside the
\* failure condition is Success (one completion marker is enough), and the
\* only other class is AgentMissing.
C7_AgentFailedExactly ==
    Ran("agent") =>
      /\ result = "AgentFailed" <=> (~output.notfound /\ FailureCondition(output))
      /\ ~FailureCondition(output) => result = "Success"
      /\ result \in {"AgentFailed", "AgentMissing", "Success"}

C7_Witness ==
    /\ pc = "done"
    /\ Ran("agent")
    /\ output.runcomplete /\ ~output.handlerscomplete
    /\ ~output.failed /\ ~output.fatal
    /\ result = "Success"

\* C8 as stated: an output with a completion marker, no stack-trace marker
\* and no not-found marker is Success whether or not the invocation failed.
C8_StatusNeverDecides ==
    (/\ Ran("agent")
     /\ output.runcomplete \/ output.handlerscomplete
     /\ ~output.fatal
     /\ ~output.notfound) => result = "Success"

\* C8 as amended: for such an output the invocation's failed flag decides:
\* Success when the invocation succeeded, AgentFailed when it failed.
C8_FailedInvocationIsAgentFailed ==
    (/\ Ran("agent")
     /\ output.runcomplete \/ output.handlerscomplete
     /\ ~output.fatal
     /\ ~output.notfound) =>
       result = IF output.failed THEN "AgentFailed" ELSE "Success"

C8_Witness ==
    /\ pc = "done"
    /\ Ran("agent")
    /\ output.failed
    /\ output.runcomplete /\ output.handlerscomplete
    /\ ~output.fatal /\ ~output.notfound
    /\ result = "AgentFailed"

FlaggedDummy(n) == n.dummy \/ "dummy" \in n.tags

\* C9: a run for a dummy node (node['dummy'] truthy or 'dummy' among its
\* tags) goes from the dummy check straight to its end with the result
\* Skipped: no step is attempted and no local or remote file changes.
C9_DummyIsSkipped ==
    [][ (pc # "idle" /\ FlaggedDummy(node)) =>
          /\ pc \in {"sync_node", "done"}
          /\ steps = <<>>
          /\ pc = "sync_node" =>
               /\ pc' = "done"
               /\ result' = "Skipped"
               /\ steps' = <<>>
               /\ UNCHANGED <<node, durable, tmpfile, envDir, envFiles,
                              remoteNodeJson, remoteSecret, remoteDataBag,
                              remoteEnvs>>
          /\ pc = "done" => result = "Skipped" /\ pc' = "idle" ]_vars

C9_Witness ==
    /\ pc = "done"
    /\ result = "Skipped"
    /\ ~node.dummy
    /\ "dummy" \in node.tags
    /\ steps = <<>>
    /\ durable # <<>>
    /\ remoteNodeJson

----------------------------------------------------------------------------
(* Properties of the data bag compiler, checked under SpecCompile *)

IdOf(n) == Str(Replace(n.m["name"].s, ".", "_"))
Compiled(i) == cpc \in {"loop", "done", "aborted", "crashed"} /\ i < cur
ClosureRoles(n) == expanded_roles(n)
ClosureRecipes(n) ==
    expanded_recipes(n, CHOOSE q \in Orders(ClosureRoles(n)) : TRUE)
MissingRecipes(n) == ClosureRecipes(n) \ RecipeNames

\* The cookbook defaults of the node's recipes, as one layer.
CookbookLayer(n) ==
    cookbook_defaults(EmptyMap,
                      CHOOSE q \in Orders(ClosureRecipes(n)) : TRUE,
                      n, all_recipes)

\* The six layers in the order the documentation gives them, each as the
\* set of maps it holds: cookbook default < environment default < role
\* default < node normal < role override < environment override.
DocumentedLayers(n) ==
    << {CookbookLayer(n)},
       {get_environment(n.m["chef_environment"].v).default_attributes},
       {RoleNamed(r).default_attributes : r \in ClosureRoles(n)},
       {node_attributes(n)},
       {RoleNamed(r).override_attributes : r \in ClosureRoles(n)},
       {get_environment(n.m["chef_environment"].v).override_attributes} >>

Sets(layer, k) == {M \in layer : k \in DOMAIN M.m}
Max(S) == CHOOSE x \in S : \A y \in S : y <= x
AttributeKeys == {"a", "b", "n", "flag", "chef_environment"}

\* C1: for every compiled node and every key that the layers set to
\* scalars, the effective value is the value of the highest layer that sets
\* the key, in the documented order of the six layers.
C1_DocumentedLayerOrder ==
    \A i \in DOMAIN nodes : Compiled(i) =>
      LET n == nodes[i]
          c == dataBag[IdOf(n)]
          ls == DocumentedLayers(n)
      IN  \A k \in AttributeKeys :
            LET ranks == {r \in DOMAIN ls : Sets(ls[r], k) # {}}
                scalar == \A r \in ranks : \A M \in Sets(ls[r], k) : ~IsMap(M.m[k])
            IN  (ranks # {} /\ scalar) =>
                  /\ k \in DOMAIN c.m
                  /\ c.m[k] \in {M.m[k] : M \in Sets(ls[Max(ranks)], k)}

\* C6: when several roles the node declares set the same key in their
\* default_attributes (or in their override_attributes) and nothing merged
\* later sets it, the effective value is that of the role declared last.
LastDeclaredWins(n, c, k, field, later) ==
    LET role == get_roles_in_node(n)
        setters == {j \in DOMAIN role : k \in DOMAIN RoleNamed(role[j])[field].m}
        others == {r \in ClosureRoles(n) \ Range(role) :
                     k \in DOMAIN RoleNamed(r)[field].m}
    IN  (/\ Cardinality(setters) > 1
         /\ others = {}
         /\ \A r \in later : Sets(DocumentedLayers(n)[r], k) = {})
        => c.m[k] = RoleNamed(role[Max(setters)])[field].m[k]

C6_LastDeclaredRoleWins ==
    \A i \in DOMAIN nodes : Compiled(i) =>
      LET n == nodes[i]
          c == dataBag[IdOf(n)]
      IN  \A k \in AttributeKeys :
            /\ LastDeclaredWins(n, c, k, "default_attributes", {2, 4, 5, 6})
            /\ LastDeclaredWins(n, c, k, "override_attributes", {6})

\* C10: a node whose expanded recipes include one the catalog lacks stops
\* the compilation: the abort names the node and a missing recipe, and no
\* record exists for that node or for any node after it; every node the
\* loop has passed had all its recipes in the catalog.
C10_MissingRecipeAborts ==
    /\ cpc # "start" =>
         \A j \in DOMAIN nodes : j >= cur => IdOf(nodes[j]) \notin DOMAIN dataBag
    /\ \A i \in DOMAIN nodes : Compiled(i) => MissingRecipes(nodes[i]) = {}
    /\ cpc = "done" => \A i \in DOMAIN nodes : MissingRecipes(nodes[i]) = {}
    /\ cpc = "aborted" =>
         /\ Len(error) = 1
         /\ error[1].node = nodes[cur].m["name"]
         /\ error[1].recipe \in MissingRecipes(nodes[cur])

C10_Witness ==
    /\ cpc = "aborted"
    /\ cur = 2
    /\ Len(nodes) >= 2
    /\ DOMAIN dataBag = {IdOf(nodes[1])}
    /\ error[1].recipe = "ghost"
    /\ error[1].node = Str(NodeNames[2])

----------------------------------------------------------------------------
(* Properties of update_dct, checked under SpecMerge *)

Returned == mpc \in {"merged", "raised"}

\* Somewhere the incoming layer holds a map where the accumulator holds a
\* value that is not a map.
RECURSIVE ShapeCollision(_, _)
ShapeCollision(d1, d2) ==
    \E k \in DOMAIN d2.m \cap DOMAIN d1.m :
       /\ IsMap(d2.m[k])
       /\ ~IsMap(d1.m[k]) \/ ShapeCollision(d1.m[k], d2.m[k])

\* res is d1 with d2 merged into it, sub-map by sub-map.
RECURSIVE MergedInto(_, _, _)
MergedInto(res, d1, d2) ==
    /\ IsMap(res)
    /\ DOMAIN res.m = DOMAIN d1.m \cup DOMAIN d2.m
    /\ \A k \in DOMAIN res.m :
         IF k \notin DOMAIN d2.m THEN res.m[k] = d1.m[k]
         ELSE IF k \notin DOMAIN d1.m THEN res.m[k] = d2.m[k]
         ELSE IF IsMap(d1.m[k]) /\ IsMap(d2.m[k])
              THEN MergedInto(res.m[k], d1.m[k], d2.m[k])
         ELSE IsMap(d2.m[k]) \/ res.m[k] = d2.m[k]

\* C11: after update_dct, a key that holds a map in the accumulator and in
\* the incoming layer holds the merge of the two maps: the sub-keys only
\* the accumulator sets keep their values, the sub-keys the layer sets take
\* the layer's, and the same holds inside every sub-map, at any depth.
C11_NestedMapsAreMerged ==
    (Returned /\ ~ShapeCollision(accumulator, incoming)) =>
       /\ mpc = "merged"
       /\ MergedInto(merged, accumulator, incoming)

C11_Witness ==
    /\ mpc = "merged"
    /\ calls = 2
    /\ accumulator = Map1("a", Map2("x", Map1("z", Leaf("1")), "y", Leaf("2")))
    /\ incoming = Map1("a", Map1("x", Map1("w", Leaf("2"))))
    /\ merged = Map1("a", Map2("x", Map2("z", Leaf("1"), "w", Leaf("2")),
                               "y", Leaf("2")))

\* C17: update_dct always completes, and a key that holds a scalar on one
\* side and a map on the other ends up holding the incoming layer's value.
C17_LaterLayerWinsWhateverTheShapes ==
    Returned =>
       /\ mpc = "merged"
       /\ \A k \in DOMAIN accumulator.m \cap DOMAIN incoming.m :
            IsMap(accumulator.m[k]) # IsMap(incoming.m[k])
               => merged.m[k] = incoming.m[k]

----------------------------------------------------------------------------
(* More properties of the data bag compiler, checked under SpecCompile *)

\* The value a dict holds at a path of keys, when it holds one.
RECURSIVE Has(_, _)
Has(M, p) ==
    /\ IsMap(M)
    /\ p[1] \in DOMAIN M.m
    /\ Len(p) > 1 => Has(M.m[p[1]], Tail(p))
RECURSIVE At(_, _)
At(M, p) == IF Len(p) = 1 THEN M.m[p[1]] ELSE At(M.m[p[1]], Tail(p))

AttributePaths ==
    {<<"a">>, <<"b">>, <<"flag">>, <<"n", "x">>, <<"n", "y">>}

\* The values the maps of one layer give the path p.
ValuesAt(layer, p) == {At(M, p) : M \in {L \in layer : Has(L, p)}}

\* C12: for every compiled node and every attribute path, a path set by a
\* cookbook default and by a normal attribute of the node holds the node's
\* value (when no override sets it), and a path set by a normal attribute
\* and by a role's override_attributes holds a role override's value (when
\* the environment override does not set it).
C12_NodeOverCookbookRoleOverrideOverNode ==
    \A i \in DOMAIN nodes : Compiled(i) =>
      LET n == nodes[i]
          c == dataBag[IdOf(n)]
          ls == DocumentedLayers(n)
      IN  \A p \in AttributePaths :
            LET sets == {r \in DOMAIN ls : ValuesAt(ls[r], p) # {}} IN
            /\ ({1, 4} \subseteq sets /\ sets \cap {5, 6} = {})
                 => Has(c, p) /\ At(c, p) \in ValuesAt(ls[4], p)
            /\ ({4, 5} \subseteq sets /\ 6 \notin sets)
                 => Has(c, p) /\ At(c, p) \in ValuesAt(ls[5], p)

C12_Witness ==
    /\ cpc = "done"
    /\ LET n == nodes[1]
           c == dataBag[IdOf(n)]
       IN  /\ get_roles_in_node(n) = <<"web">>
           /\ n.m["chef_environment"] = Leaf("_default")
           /\ {"a", "b"} \subseteq DOMAIN n.m
           /\ n.m["a"] = Leaf("node_normal")
           /\ n.m["b"] = Leaf("true")
           /\ Has(CookbookLayer(n), <<"a">>)
           /\ Has(CookbookLayer(n), <<"b">>)
           /\ c.m["a"] = Leaf("node_normal")
           /\ c.m["b"] = Leaf("false")

\* The defaults the schemas of the node's recipes declare for the path p,
\* as the metadata spells them.
SchemaDefaults(n, p) ==
    UNION {{x.default : x \in {y \in Range(all_recipes[i].attributes) :
                                 y.path = p /\ y.type # "hash"}} :
           i \in {j \in DOMAIN all_recipes :
                    all_recipes[j].name \in ClosureRecipes(n)}}

AsBoolean(v) ==
    IF v = Leaf("true") THEN Bool(TRUE)
    ELSE IF v = Leaf("false") THEN Bool(FALSE)
    ELSE v

\* C13: for every compiled node and every attribute path, a path that the
\* environment, a role or the node itself sets holds one of the values they
\* give it, a string "true" or "false" still being that string; a path that
\* only cookbook schemas set holds the schema default, with the strings
\* "true" and "false" turned into booleans.
C13_OnlySchemaDefaultsBecomeBooleans ==
    \A i \in DOMAIN nodes : Compiled(i) =>
      LET n == nodes[i]
          c == dataBag[IdOf(n)]
          ls == DocumentedLayers(n)
      IN  \A p \in AttributePaths :
            LET supplied == UNION {ValuesAt(ls[r], p) : r \in 2..6}
                schema == SchemaDefaults(n, p)
            IN  /\ supplied # {} => Has(c, p) /\ At(c, p) \in supplied
                /\ (supplied = {} /\ schema # {})
                     => Has(c, p) /\ At(c, p) \in {AsBoolean(v) : v \in schema}

C13_Witness ==
    /\ cpc = "done"
    /\ Len(nodes) = 2
    /\ LET n == nodes[1]
           c == dataBag[IdOf(n)]
           d == dataBag[IdOf(nodes[2])]
       IN  /\ Range(get_roles_in_node(n)) = {"base"}
           /\ Range(get_recipes_in_node(n)) = {"nginx"}
           /\ n.m["chef_environment"] = Leaf("_default")
           /\ c.m["flag"] = Leaf("false")
           /\ c.m["b"] = Bool(FALSE)
           /\ d.m["flag"] = Bool(TRUE)
           /\ d.m["b"] = Leaf("false")

IncludedRoles(r) == Range(ItemsOfKind(RoleNamed(r).run_list, "role"))
IncludedRecipes(r) == Range(ItemsOfKind(RoleNamed(r).run_list, "recipe"))

\* The roles reachable from the roles of S through role inclusion.
RECURSIVE Reach(_)
Reach(S) ==
    LET T == S \cup UNION {IncludedRoles(r) : r \in S}
    IN  IF T = S THEN S ELSE Reach(T)

NoDuplicates(q) == \A i, j \in DOMAIN q : q[i] = q[j] => i = j

\* C14: in every compiled node, roles and recipes hold no name twice;
\* roles is the set of roles reachable from the declared roles, recipes the
\* declared recipes together with the recipes of every role in roles.
C14_ClosuresHaveNoDuplicates ==
    \A i \in DOMAIN nodes : Compiled(i) =>
      LET n == nodes[i]
          c == dataBag[IdOf(n)]
          roles == c.m["roles"].l
          recipes == c.m["recipes"].l
      IN  /\ NoDuplicates(roles)
          /\ NoDuplicates(recipes)
          /\ Range(roles) = Reach(Range(get_roles_in_node(n)))
          /\ Range(recipes) =
                Range(get_recipes_in_node(n))
                \cup UNION {IncludedRecipes(r) : r \in Range(roles)}

C14_Witness ==
    /\ cpc = "done"
    /\ LET n == nodes[1]
           c == dataBag[IdOf(n)]
       IN  /\ get_roles_in_node(n) = <<"lamp", "web">>
           /\ get_recipes_in_node(n) = <<"nginx">>
           /\ Len(c.m["roles"].l) = 3
           /\ Range(c.m["roles"].l) = {"lamp", "web", "db"}
           /\ Len(c.m["recipes"].l) = 2
           /\ Range(c.m["recipes"].l) = {"nginx", "php"}

----------------------------------------------------------------------------
(* More properties of the convergence workflow, checked under Spec *)

\* C15: address discovery is best-effort. A node that lacks an address is
\* asked of the host: a failed query leaves the address unset and the run
\* goes on to persist, sync and execute, an existing nodes/<host>.json being
\* left as it was; a successful query puts the address in the node before
\* the two records are written. A node that has an address is not asked
\* and keeps it.
C15_AddressDiscoveryIsBestEffort ==
    /\ [][ pc = "ipaddress" =>
             IF node.ipaddress # NoAddr
             THEN /\ ohai_output' = "none"
                  /\ "ohai" \notin Range(steps')
                  /\ node' = node
                  /\ pc' = "save"
             ELSE /\ ohai_output' # "none"
                  /\ "ohai" \in Range(steps')
                  /\ ohai_output' = "failed" =>
                       /\ node' = node
                       /\ result' = result
                       /\ pc' = "save"
                  /\ ohai_output' = "ok" =>
                       /\ node'.ipaddress # NoAddr
                       /\ UNCHANGED <<durable, tmpfile>>
                       /\ pc' = "save" ]_vars
    /\ [](pc # "idle" =>
            /\ ohai_output = "failed" =>
                 /\ node.ipaddress = NoAddr
                 /\ durable0 # <<>> => durable = durable0
                 /\ pc = "put_node" => tmpfile = <<Serialize(node)>>
                 /\ pc = "done" =>
                      /\ Ran("save") /\ Ran("put_node")
                      /\ result # "TransferError" => Ran("agent")
            /\ ohai_output = "ok" =>
                 /\ node.ipaddress # NoAddr
                 /\ Ran("save") => durable = <<Serialize(node)>>
                 /\ pc = "put_node" => tmpfile = <<Serialize(node)>>
            /\ (ohai_output = "none" /\ Ran("discover")) =>
                 node.ipaddress # NoAddr)

C15_Witness ==
    /\ pc = "done"
    /\ ohai_output = "failed"
    /\ node.ipaddress = NoAddr
    /\ result = "Success"
    /\ Ran("agent")
    /\ durable0 # <<>>
    /\ durable = durable0

\* The steps of a run in their order; "ohai" is part of "discover".
StepOrder ==
    <<"configure", "discover", "save", "put_node", "rm_tmp", "put_secret",
      "ensure_envs", "rsync", "rotate_log", "agent", "cleanup">>
Position(s) == CHOOSE i \in DOMAIN StepOrder : StepOrder[i] = s
Conditional(s) == s = "put_secret" /\ ~secret

\* C16: in a run for a node that is not a dummy the steps are attempted in
\* one order, none twice, and a step is attempted only after every step
\* before it (the secret only when one is configured); cleanup follows the
\* last step attempted once the transfer has begun; a run that succeeds
\* has attempted them all; the agent runs only after the node record and
\* the tree are on the host.
C16_StepsInFixedOrder ==
    (pc # "idle" /\ ~FlaggedDummy(node)) =>
      LET done == SelectSeq(steps, LAMBDA s : s # "ohai") IN
      /\ \A i \in DOMAIN steps :
           steps[i] = "ohai" => i > 1 /\ steps[i - 1] = "discover"
      /\ Range(done) \subseteq Range(StepOrder)
      /\ \A i, j \in DOMAIN done :
           i < j => Position(done[i]) < Position(done[j])
      /\ \A i \in DOMAIN done : done[i] # "cleanup" =>
           \A k \in 1..(Position(done[i]) - 1) :
              ~Conditional(StepOrder[k]) => Ran(StepOrder[k])
      /\ Ran("put_secret") => secret
      /\ Ran("cleanup") => Ran("put_node")
      /\ (pc = "done" /\ result = "Success") =>
           done = SelectSeq(StepOrder, LAMBDA s : ~Conditional(s))
      /\ pc = "agent" => remoteNodeJson /\ remoteDataBag

C16_Witness ==
    /\ pc = "done"
    /\ result = "Success"
    /\ secret
    /\ steps = <<"configure", "discover", "ohai", "save", "put_node", "rm_tmp",
                 "put_secret", "ensure_envs", "rsync", "rotate_log", "agent",
                 "cleanup">>

\* C18: tmp_<host>.json exists only from save_config to the end of the
\* upload of the node record; in particular none is left when the run has
\* ended, however it ended.
C18_NoTransientRecordAfterTransfer ==
    pc \notin {"put_node", "rm_tmp"} => tmpfile = <<>>

\* C19: in every compiled node the identity and closure fields are the
\* ones computed from the node's own file, whatever the layers hold: id is
\* the declared name with "_" for ".", name and fqdn are the declared name,
\* hostname and domain are the parts of that name before and after its
\* first dot, roles and recipes are the closures.
C19_IdentityFieldsSurviveTheMerge ==
    \A i \in DOMAIN nodes : Compiled(i) =>
      LET n == nodes[i]
          declared == n.m["name"].s
          dot == FirstDot(declared)
      IN  /\ IdOf(n) \in DOMAIN dataBag
          /\ LET c == dataBag[IdOf(n)]
             IN  /\ c.m["id"] = IdOf(n)
                 /\ c.m["name"] = Str(declared)
                 /\ c.m["fqdn"] = Str(declared)
                 /\ c.m["hostname"] = Str(SubSeq(declared, 1, dot - 1))
                 /\ c.m["domain"] = Str(SubSeq(declared, dot + 1, Len(declared)))
                 /\ c.m["roles"].t = "list"
                 /\ Range(c.m["roles"].l) = ClosureRoles(n)
                 /\ c.m["recipes"].t = "list"
                 /\ Range(c.m["recipes"].l) = ClosureRecipes(n)

\* The record build_node_data_bag writes for the node n when it is the
\* only node of the batch, the kitchen being as it was loaded and
\* list(set(...)) handing out the orders roles and recipes.
CompiledAlone(n, roles, recipes) ==
    LET n1 == Map(Put(n.m, "id", IdOf(n)))
        n2 == Map(Put(n1.m, "role", List(get_roles_in_node(n1))))
        n3 == Map(Put(Put(n2.m, "roles", List(roles)), "recipes", List(recipes)))
        n4 == _add_merged_attributes(n3, all_recipes, all_roles)
    IN  IF IsMap(n4) THEN _add_automatic_attributes(n4) ELSE n4

\* C20: compiling a node leaves the kitchen as it was loaded: the default
\* and override attributes of every role, the schema of every recipe and
\* the environments; so every compiled node's record is one the node gets
\* when it is compiled alone, whichever nodes were compiled before it.
C20_CompileLeavesTheKitchenUnchanged ==
    cpc \in {"loop", "done", "aborted", "crashed"} =>
      /\ kitchen = LoadedKitchen
      /\ \A i \in DOMAIN nodes : Compiled(i) =>
           /\ IdOf(nodes[i]) \in DOMAIN dataBag
           /\ LET c == dataBag[IdOf(nodes[i])]
              IN  /\ Range(c.m["roles"].l) = ClosureRoles(nodes[i])
                  /\ Range(c.m["recipes"].l) = ClosureRecipes(nodes[i])
                  /\ c = CompiledAlone(nodes[i], c.m["roles"].l,
                                        c.m["recipes"].l)

\* Two nodes are compiled; the first has the role web, whose default
\* attributes hold a dict under a key new to the accumulator, and merges a
\* dict of its own under the same key; the second has the role web too.
C20_Witness ==
    /\ cpc = "done"
    /\ Len(nodes) = 2
    /\ cur = 3
    /\ LET n == nodes[1]
           c == dataBag[IdOf(n)]
           d == dataBag[IdOf(nodes[2])]
       IN  /\ get_roles_in_node(n) = <<"web">>
           /\ get_recipes_in_node(n) = <<>>
           /\ "n" \in DOMAIN n.m
           /\ c.m["n"] = Map2("x", Leaf("node_normal"), "y", Leaf("web_default"))
           /\ get_roles_in_node(nodes[2]) = <<"web">>
           /\ d.m["n"] = Map1("y", Leaf("web_default"))

============================================================================
